---- MODULE Spec2Model ----
(***************************************************************************)
(* quicssh-rs: a tunnel carrying a byte stream over QUIC.                  *)
(*                                                                         *)
(* The process is either the server (src/src/server.rs, run) or the client *)
(* (src/src/client.rs, run).  The server's accept loop hands every         *)
(* established connection to a task of its own (handle_connection), which  *)
(* dials the backend and relays bytes in two directions; the client relays *)
(* between its standard streams and one QUIC stream.                       *)
(*                                                                         *)
(* Granularity: one action per await point.  The code between two awaits   *)
(* of one task runs without interruption, so the completion of an await    *)
(* and the synchronous code up to the next await form one step.  The two   *)
(* relay directions of a session are async blocks polled by one            *)
(* tokio::select!, so the return of one of them and the completion of the  *)
(* select (which drops the other) are one step as well.                    *)
(***************************************************************************)
EXTENDS Integers, Sequences, FiniteSets, TLC

\* ------------------------------------------------------------------ bounds
\* Connections that reach the server's endpoint in one run.
MaxSessions == 2
\* Bytes a relay source produces in the data-heavy scenario (SpecData).
MaxBytes == 3
\* Length of the relay buffer in the model (the code's is [0; 2048]).
BufLen == 2

\* ------------------------------------------------------------------ values
None == <<>>
Some(x) == <<x>>

\* Backend socket addresses, as the text the configuration gives them in.
Fallback == "127.0.0.1:22"
Backends == {"127.0.0.1:22", "127.0.0.1:2200", "127.0.0.1:2222", "10.0.0.9:22"}

\* Relay directions: the names the code gives its two async blocks.
Dirs == {"recv_thread", "write_thread"}
Other(d) == IF d = "recv_thread" THEN "write_thread" ELSE "recv_thread"

\* Pump 0 is the client's (one session per run); 1..MaxSessions are the
\* server's per-connection handlers.
ClientPump == 0
Sessions == 1..MaxSessions
Pumps == {ClientPump} \cup Sessions

\* The remote address of connection s, and how Rust renders it.
RemoteOf(s) == [ip |-> <<10, 0, 0, s>>, port |-> 50000 + s]

\* <IpAddr as Display>::to_string: dotted decimal, no port.
IpToString(ip) ==
  CASE ip = <<10, 0, 0, 1>> -> "10.0.0.1"
    [] ip = <<10, 0, 0, 2>> -> "10.0.0.2"
    [] ip = <<10, 0, 0, 3>> -> "10.0.0.3"
    [] OTHER -> "10.0.0.x"

\* <SocketAddr as Display>::to_string: ip:port.
SocketAddrToString(a) ==
  CASE a = RemoteOf(1) -> "10.0.0.1:50001"
    [] a = RemoteOf(2) -> "10.0.0.2:50002"
    [] a = RemoteOf(3) -> "10.0.0.3:50003"
    [] OTHER -> "10.0.0.x:port"


\* Min of two numbers.
Min(a, b) == IF a <= b THEN a ELSE b

\* The bytes a source produces are numbered: byte i of every source is i, so
\* a duplicated, reordered or altered byte shows in the sink.
Stream(k) == [i \in 1..k |-> i]

IsPrefix(s, t) == Len(s) <= Len(t) /\ \A i \in 1..Len(s) : s[i] = t[i]

\* ------------------------------------------------------- routing tables
\* ServerConf.proxy: HashMap<String, SocketAddr>, as a function on its keys.
EmptyTable == [k \in {} |-> Fallback]

Tables ==
  { EmptyTable,
    "foo.example" :> "127.0.0.1:2200",
    ("default" :> "127.0.0.1:2222") @@ ("foo.example" :> "127.0.0.1:2200"),
    ("default" :> "127.0.0.1:2222") @@ ("FOO.example" :> "127.0.0.1:2200"),
    ("10.0.0.1" :> "127.0.0.1:2200") @@ ("10.0.0.1:50001" :> "127.0.0.1:2222") }

\* The server names a peer may declare in its handshake.
PeerNames == {None, Some("foo.example"), Some("bar.example")}

\* A table with a default and one named route.
ExampleConf ==
  [given |-> TRUE, ok |-> TRUE,
   proxy |-> ("default" :> "127.0.0.1:2222") @@ ("foo.example" :> "127.0.0.1:2200")]

NoConf == [given |-> FALSE, ok |-> TRUE, proxy |-> EmptyTable]

\* --conf: absent, a file that parses to a table, or a file that does not.
ConfInputs ==
  {NoConf}
    \cup {[given |-> TRUE, ok |-> TRUE, proxy |-> t] : t \in Tables}
    \cup {[given |-> TRUE, ok |-> FALSE, proxy |-> EmptyTable]}

\* --------------------------------------------------------- client inputs
\* IpAddrKind, as unbound_udpsocket matches on it.
IpAddrKinds == {"V4", "V6"}

\* Socket addresses of both families: two a host may resolve to, two the
\* client may be told to bind.
Target4 == [family |-> "V4", ip |-> "192.0.2.7", port |-> "4433"]
Target6 == [family |-> "V6", ip |-> "2001:db8::7", port |-> "4433"]
Local4 == [family |-> "V4", ip |-> "192.0.2.1", port |-> "40000"]
Local6 == [family |-> "V6", ip |-> "2001:db8::1", port |-> "40000"]

\* to_socket_addrs: an error, or the addresses found, in order.
Resolutions ==
  {[ok |-> FALSE, addrs |-> <<>>]}
    \cup {[ok |-> TRUE, addrs |-> a] :
            a \in {<<>>, <<Target4>>, <<Target6>>, <<Target6, Target4>>}}

\* Opt.url: the scheme it is given with and what its host resolves to.
Urls == [scheme : {"quic", "ssh"}, resolves : Resolutions]

\* Opt.bind_addr.
BindAddrs == {None, Some(Local4), Some(Local6)}

\* Build targets, at least one for each cfg branch of raw_socket_fd.
Platforms == {"linux", "freebsd", "solaris", "macos"}

\* The libc calls of raw_socket_fd; at most one of them fails in a run.
SysCalls == {"socket", "ioctl", "setsockopt"}

\* ---------------------------------------------------------------- state
VARIABLES
  role,          \* "server" or "client": the subcommand this process runs
  \* server
  conf_path,     \* Opt.conf_path and what the file parses to
  opt_proxy_to,  \* Opt.proxy_to
  down,          \* backends that refuse a TCP connection
  nConn,         \* connections that will reach the endpoint
  peerNames,     \* the server names their peers may declare
  conf,          \* conf.proxy once loaded
  default_proxy, \* run's default_proxy
  srvPc,         \* where run's task is
  cur,           \* the connection run is awaiting the handshake of
  conn,          \* per connection: absent, incoming, handshaking, failed, established
  server_name,   \* per connection: HandshakeData.server_name
  sni,           \* per connection: run's sni
  proxy_to,      \* per connection: run's proxy_to, moved into the task
  hpc,           \* per connection: where its handle_connection task is
  dialed,        \* per connection: the address TcpStream::connect was given
  \* relay
  srcLen,        \* per pump and direction: bytes its source will produce
  pump,          \* per pump and direction: the state of the async block
  \* client
  url,           \* Opt.url: its scheme, and what its host resolves to
  bind_addr,     \* Opt.bind_addr
  platform,      \* the target the binary was built for
  sysFail,       \* the libc call that fails in this run, if any
  remote,        \* run's remote, once resolved
  endpoint,      \* run's endpoint, once built
  fds,           \* sockets open in the process
  factory,       \* the kinds unbound_udpsocket was called with, in order
  cerr,          \* the step run failed at, if any
  cpc,           \* where client run's task is
  sigPc,         \* where signal_thread is
  hup,           \* a hang-up signal was delivered
  closed         \* connection.close's arguments, once called

serverIn == <<conf_path, opt_proxy_to, down, nConn, peerNames>>
serverVars == <<conf, default_proxy, srvPc, cur, conn, server_name, sni, proxy_to>>
handlerVars == <<hpc, dialed>>
pumpVars == <<srcLen, pump>>
clientIn == <<url, bind_addr, platform, sysFail>>
setupVars == <<remote, endpoint, fds, factory, cerr>>
clientVars == <<clientIn, setupVars, cpc, sigPc, hup, closed>>
vars == <<role, serverIn, serverVars, handlerVars, pumpVars, clientVars>>

\* An async block before its first poll.
IdleDir ==
  [pc |-> "idle", rd |-> 0, buf |-> [i \in 1..BufLen |-> 0], out |-> <<>>,
   wbuf |-> <<>>, sink |-> <<>>, eof |-> FALSE, err |-> ""]

InitCommon ==
  /\ conf = EmptyTable
  /\ default_proxy = ""
  /\ srvPc = "startup"
  /\ cur = 0
  /\ conn = [s \in Sessions |-> "absent"]
  /\ server_name = [s \in Sessions |-> None]
  /\ sni = [s \in Sessions |-> ""]
  /\ proxy_to = [s \in Sessions |-> ""]
  /\ hpc = [s \in Sessions |-> "unspawned"]
  /\ dialed = [s \in Sessions |-> None]
  /\ pump = [p \in Pumps |-> [d \in Dirs |-> IdleDir]]
  /\ remote = None
  /\ endpoint = None
  /\ fds = {}
  /\ factory = <<>>
  /\ cerr = ""
  /\ cpc = "start"
  /\ sigPc = "idle"
  /\ hup = FALSE
  /\ closed = None

\* The client takes none of the server's options.
ClientInit ==
  /\ role = "client"
  /\ conf_path = NoConf
  /\ opt_proxy_to = None
  /\ down = {}
  /\ nConn = 0
  /\ peerNames = {None}

\* One client: a quic URL that resolves to an IPv4 address, no bind
\* address, a Linux build, no failing call.
OneClient ==
  /\ url = [scheme |-> "quic", resolves |-> [ok |-> TRUE, addrs |-> <<Target4>>]]
  /\ bind_addr = None
  /\ platform = "linux"
  /\ sysFail = "none"

\* Every client: each URL, bind address, build target and failing call.
EveryClient ==
  /\ url \in Urls
  /\ bind_addr \in BindAddrs
  /\ platform \in Platforms
  /\ sysFail \in SysCalls \cup {"none"}

\* Short streams: one byte from the source of recv_thread, none from the
\* source of write_thread.
ShortStreams == [p \in Pumps |-> [d \in Dirs |-> IF d = "recv_thread" THEN 1 ELSE 0]]

\* Several connections, two routes, short streams.
Init ==
  /\ \/ /\ role = "server"
        /\ conf_path = ExampleConf
        /\ opt_proxy_to = None
        /\ down \in {{}, {"127.0.0.1:2200"}}
        /\ nConn = MaxSessions
        /\ peerNames = {None, Some("foo.example")}
        /\ OneClient
     \/ ClientInit /\ OneClient
  /\ srcLen = ShortStreams
  /\ InitCommon

\* One connection, every configuration of the server and every input of the
\* client, short streams.
InitRoute ==
  /\ \/ /\ role = "server"
        /\ conf_path \in ConfInputs
        /\ opt_proxy_to \in {None, Some("10.0.0.9:22")}
        /\ down \in {{}, {"127.0.0.1:2200"}}
        /\ nConn = 1
        /\ peerNames = PeerNames
        /\ OneClient
     \/ ClientInit /\ EveryClient
  /\ srcLen = ShortStreams
  /\ InitCommon

\* One connection, one configuration, long streams.
InitData ==
  /\ \/ /\ role = "server"
        /\ conf_path = NoConf
        /\ opt_proxy_to = None
        /\ down = {}
        /\ nConn = 1
        /\ peerNames = {None}
        /\ OneClient
     \/ ClientInit /\ OneClient
  /\ srcLen = [p \in Pumps |-> [d \in Dirs |-> MaxBytes]]
  /\ InitCommon

\* ------------------------------------------------------------ server: run
\* A lookup that folds case before it compares keys.
Lower(k) == IF k = "FOO.example" THEN "foo.example" ELSE k
GetIgnoreCase(m, k) ==
  LET hit == {e \in DOMAIN m : Lower(e) = Lower(k)}
  IN  IF hit = {} THEN None ELSE Some(m[CHOOSE e \in hit : TRUE])

\* HashMap::get: the value stored under exactly this key.
Get(m, k) == IF k \in DOMAIN m THEN Some(m[k]) ELSE None

\* Option::unwrap_or.
UnwrapOr(o, d) == IF o = None THEN d ELSE o[1]

\* A default_proxy that lets --proxy-to win over the configured default.
DefaultProxyOverrideFirst(c, o) ==
  IF o # None THEN o[1]
  ELSE IF "default" \in DOMAIN c THEN c["default"] ELSE "127.0.0.1:22"

\* run's default_proxy: conf.proxy["default"], else --proxy-to, else
\* 127.0.0.1:22.
DefaultProxy(c, o) ==
  LET g == Get(c, "default")
  IN  IF g # None THEN g[1] ELSE UnwrapOr(o, Fallback)

\* A routing key that ignores the declared server name.
RoutingKeyIpOnly(name, addr) == IpToString(addr.ip)

\* run's sni: the handshake's server name, else the remote address's ip as
\* text.
RoutingKey(name, addr) == UnwrapOr(name, IpToString(addr.ip))

\* A lookup that takes the entry out of the table (HashMap::remove): a key
\* an earlier session presented finds nothing.
LookupRemove(c, k, d) ==
  IF \E s \in Sessions : sni[s] = k THEN d ELSE UnwrapOr(Get(c, k), d)

\* run's proxy_to: conf.proxy.get(&sni).unwrap_or(&default_proxy).
Lookup(c, k, d) == UnwrapOr(Get(c, k), d)

\* A loop that ends on a failed handshake (`break`, or `?` on the await).
StopOnHandshakeError == "stopped"

\* Where run goes after a failed handshake: `continue`.
AfterHandshakeError == "accept"

\* A task that goes on to accept_bi after a failed connect (no `return`).
FallThroughOnDialError == "accept_bi"

\* What a handle_connection task does when TcpStream::connect fails: `return`.
AfterDialError == "dial_failed"

\* run up to its loop: load the configuration, compute default_proxy, build
\* the endpoint.
ServerStartup ==
  /\ role = "server"
  /\ srvPc = "startup"
  /\ \/ /\ conf_path.given /\ ~conf_path.ok
        /\ srvPc' = "failed"
        /\ UNCHANGED <<conf, default_proxy>>
     \/ /\ conf_path.ok
        /\ conf' = conf_path.proxy
        /\ default_proxy' = DefaultProxy(conf', opt_proxy_to)
        /\ srvPc' \in {"accept", "failed"}
  /\ UNCHANGED <<role, serverIn, cur, conn, server_name, sni, proxy_to,
                 handlerVars, pumpVars, clientVars>>

\* A peer starts a connection to the endpoint.
Arrive(s) ==
  /\ role = "server"
  /\ srvPc \in {"accept", "handshake"}
  /\ s <= nConn
  /\ conn[s] = "absent"
  /\ \A t \in Sessions : t < s => conn[t] # "absent"
  /\ conn' = [conn EXCEPT ![s] = "incoming"]
  /\ UNCHANGED <<role, serverIn, conf, default_proxy, srvPc, cur, server_name,
                 sni, proxy_to, handlerVars, pumpVars, clientVars>>

\* The connection endpoint.accept() yields next: the oldest waiting one.
NextIncoming ==
  LET w == {s \in Sessions : conn[s] = "incoming"}
  IN  IF w = {} THEN 0 ELSE CHOOSE s \in w : \A t \in w : s <= t

\* endpoint.accept().await returns.
ServerAccept ==
  /\ role = "server"
  /\ srvPc = "accept"
  /\ \/ /\ NextIncoming # 0
        /\ cur' = NextIncoming
        /\ conn' = [conn EXCEPT ![NextIncoming] = "handshaking"]
        /\ srvPc' = "handshake"
        /\ UNCHANGED <<role, serverIn, conf, default_proxy, server_name, sni,
                       proxy_to, handlerVars, pumpVars, clientVars>>
     \/ \* None: `continue`
        UNCHANGED vars

\* incoming_conn.await returns; on Ok the rest of the loop body runs: the
\* routing key, the lookup and the spawn.
ServerHandshake ==
  /\ role = "server"
  /\ srvPc = "handshake"
  /\ \/ /\ conn' = [conn EXCEPT ![cur] = "established"]
        /\ \E n \in peerNames : server_name' = [server_name EXCEPT ![cur] = n]
        /\ sni' = [sni EXCEPT ![cur] = RoutingKey(server_name'[cur], RemoteOf(cur))]
        /\ proxy_to' = [proxy_to EXCEPT ![cur] = Lookup(conf, sni'[cur], default_proxy)]
        /\ hpc' = [hpc EXCEPT ![cur] = "dial"]
        /\ srvPc' = "accept"
     \/ /\ conn' = [conn EXCEPT ![cur] = "failed"]
        /\ srvPc' = AfterHandshakeError
        /\ UNCHANGED <<server_name, sni, proxy_to, hpc>>
  /\ cur' = 0
  /\ UNCHANGED <<role, serverIn, conf, default_proxy, dialed, pumpVars,
                 clientVars>>

\* ------------------------------------------------ server: handle_connection
\* TcpStream::connect(proxy_for).await returns.
HandlerDial(s) ==
  /\ hpc[s] = "dial"
  /\ dialed' = [dialed EXCEPT ![s] = Some(proxy_to[s])]
  /\ hpc' = [hpc EXCEPT ![s] = IF proxy_to[s] \in down THEN AfterDialError
                                ELSE "accept_bi"]
  /\ UNCHANGED <<role, serverIn, serverVars, pumpVars, clientVars>>

\* The two async blocks at their first read.
StartDirs(p) ==
  [pump EXCEPT ![p] = [d \in Dirs |-> [IdleDir EXCEPT !.pc = "read"]]]

\* connection.accept_bi().await returns; on Ok the select polls both blocks,
\* each up to its first read.
HandlerAcceptBi(s) ==
  /\ hpc[s] = "accept_bi"
  /\ \/ /\ hpc' = [hpc EXCEPT ![s] = "relay"]
        /\ pump' = StartDirs(s)
     \/ /\ hpc' = [hpc EXCEPT ![s] = "stream_failed"]
        /\ UNCHANGED pump
  /\ UNCHANGED <<role, serverIn, serverVars, dialed, srcLen, clientVars>>

\* ------------------------------------------------------------- the relay
\* The client's recv_thread writes through a BufWriter and flushes it; the
\* other three blocks write to their sink directly.
Buffered(p, d) == p = ClientPump /\ d = "recv_thread"

\* The whole buffer handed to write_all: &buf.
ChunkWholeBuf(b, n) == b

\* The slice handed to write_all: &buf[..n].
Chunk(b, n) == SubSeq(b, 1, n)

\* A branch that is left running when another completes (detached tasks, or
\* tokio::join! in place of the select).
SelectKeep(pc) == pc

\* What tokio::select! does to a branch that did not complete: drops it.
SelectDrop(pc) == "dropped"

\* A block that returned or was dropped: its buffers are gone; what it took
\* from its source and gave to its sink stays.
Ended(r, pc, e) ==
  [r EXCEPT !.pc = pc, !.err = e, !.buf = IdleDir.buf, !.out = <<>>, !.wbuf = <<>>]

\* Where a block goes when its read reports end-of-stream (Ok(None) from the
\* QUIC stream, Ok(0) from the socket or stdin): `continue`.
AfterEof == "read"

\* Where the client's recv_thread goes when its flush fails: it logs and
\* loops.
AfterFlushError == "read"

\* An error that takes every relay of the process down with it (a shared
\* cancellation, or an exit on error).
ReturnAbortsAll(p, d, e) ==
  /\ pump' = [q \in Pumps |-> [x \in Dirs |->
                IF q = p /\ x = d THEN Ended(pump[q][x], "done", e)
                ELSE IF pump[q][x].pc = "idle" THEN pump[q][x]
                ELSE Ended(pump[q][x], "dropped", pump[q][x].err)]]
  /\ IF p = ClientPump
       THEN /\ cpc' = "exited"
            /\ sigPc' = "dropped"
            /\ UNCHANGED <<hpc, clientIn, setupVars, hup, closed>>
       ELSE /\ hpc' = [s \in Sessions |-> IF hpc[s] = "relay" THEN "exited" ELSE hpc[s]]
            /\ UNCHANGED clientVars

\* A block that returns under tokio::join!: the owner waits for the other
\* branches.
ReturnJoin(p, d, e) ==
  /\ pump' = [pump EXCEPT ![p][d] = Ended(@, "done", e)]
  /\ UNCHANGED <<hpc, clientVars>>

\* Block d of pump p returns with error e: the select completes, the other
\* branches are dropped and the owner runs to its end.
Return(p, d, e) ==
  /\ pump' = [pump EXCEPT ![p][d] = Ended(@, "done", e),
                          ![p][Other(d)] = Ended(@, SelectDrop(@.pc), @.err)]
  /\ IF p = ClientPump
       THEN /\ cpc' = "exited"
            /\ sigPc' = SelectDrop(sigPc)
            /\ UNCHANGED <<hpc, clientIn, setupVars, hup, closed>>
       ELSE /\ hpc' = [hpc EXCEPT ![p] = "exited"]
            /\ UNCHANGED clientVars

\* Block d of pump p stays in its loop, with its state now r.
Continue(p, d, r) ==
  /\ pump' = [pump EXCEPT ![p][d] = r]
  /\ UNCHANGED <<hpc, clientVars>>

\* source.read(&mut buf).await returns.
DirRead(p, d) ==
  LET me == pump[p][d] IN
  /\ me.pc = "read"
  /\ \/ \* Ok(n), n > 0: the chunk goes to write_all
        \E n \in 1..Min(BufLen, srcLen[p][d] - me.rd) :
          LET b == [i \in 1..BufLen |-> IF i <= n THEN me.rd + i ELSE me.buf[i]]
          IN  /\ ~me.eof
              /\ Continue(p, d, [me EXCEPT !.pc = "write", !.rd = me.rd + n,
                                           !.buf = b, !.out = Chunk(b, n)])
     \/ \* end of stream
        Continue(p, d, [me EXCEPT !.pc = AfterEof, !.eof = TRUE])
     \/ \* Err
        Return(p, d, "read")
  /\ UNCHANGED <<role, serverIn, serverVars, dialed, srcLen>>

\* sink.write_all(&buf[..n]).await makes progress or fails.
DirWrite(p, d) ==
  LET me == pump[p][d] IN
  /\ me.pc = "write"
  /\ \/ /\ Buffered(p, d)
        /\ Continue(p, d, [me EXCEPT !.pc = "flush", !.wbuf = me.wbuf \o me.out,
                                     !.out = <<>>])
     \/ /\ ~Buffered(p, d)
        /\ \E k \in 1..Len(me.out) :
             Continue(p, d, [me EXCEPT
               !.pc = IF k = Len(me.out) THEN "read" ELSE "write",
               !.sink = me.sink \o SubSeq(me.out, 1, k),
               !.out = SubSeq(me.out, k + 1, Len(me.out))])
     \/ Return(p, d, "write")
  /\ UNCHANGED <<role, serverIn, serverVars, dialed, srcLen>>

\* writer.flush().await makes progress or fails (client recv_thread only).
DirFlush(p, d) ==
  LET me == pump[p][d] IN
  /\ me.pc = "flush"
  /\ \/ \E k \in 1..Len(me.wbuf) :
          Continue(p, d, [me EXCEPT
            !.pc = IF k = Len(me.wbuf) THEN "read" ELSE "flush",
            !.sink = me.sink \o SubSeq(me.wbuf, 1, k),
            !.wbuf = SubSeq(me.wbuf, k + 1, Len(me.wbuf))])
     \/ Continue(p, d, [me EXCEPT !.pc = AfterFlushError, !.err = "flush"])
  /\ UNCHANGED <<role, serverIn, serverVars, dialed, srcLen>>

\* ------------------------------------------------------------ client: run
\* run's start-up has no await before endpoint.connect; it is split at its
\* fallible steps, so that the order of their effects shows.
\* --- unbound_udpsocket.rs
\* The cfg branch of raw_socket_fd a target is built with: A passes
\* SOCK_CLOEXEC to socket; B calls socket, then ioctl(FIOCLEX); C does as B
\* and then sets SO_NOSIGPIPE.
WithSockCloexec ==
  {"android", "dragonfly", "freebsd", "illumos", "hurd", "linux", "netbsd",
   "openbsd", "nto"}
Apple == {"macos", "ios"}

Strategy(os) ==
  IF os \in WithSockCloexec THEN "A" ELSE IF os \in Apple THEN "C" ELSE "B"

\* The match on kind in unbound_udpsocket.
Af(kind) == IF kind = "V4" THEN "AF_INET" ELSE "AF_INET6"

\* A socket as the kernel holds it: what it was created with, the flags set
\* on it since, and the local address it is bound to, if any.
Socket(fam, ty, cloexec) ==
  [family |-> fam, ty |-> ty, cloexec |-> cloexec, nosigpipe |-> FALSE,
   local |-> None]

\* raw_socket_fd that forgets FIOCLEX where socket does not take SOCK_CLOEXEC.
RawSocketFdNoIoctl(os, fam, ty, fail) ==
  LET s0 == Socket(fam, ty, Strategy(os) = "A")
  IN  IF fail = "socket" THEN [ok |-> FALSE, fd |-> None, open |-> {}]
      ELSE [ok |-> TRUE, fd |-> Some(s0), open |-> {s0}]

\* raw_socket_fd(fam, ty) on target os when call `fail` fails: its result,
\* and the sockets it leaves open in the process.  `?` returns at the first
\* failing call; no branch closes fd before it returns.
RawSocketFd(os, fam, ty, fail) ==
  LET s0 == Socket(fam, ty, Strategy(os) = "A")
      s1 == [s0 EXCEPT !.cloexec = TRUE]
      s2 == [s1 EXCEPT !.nosigpipe = TRUE]
  IN  CASE fail = "socket"      -> [ok |-> FALSE, fd |-> None, open |-> {}]
        [] Strategy(os) = "A"   -> [ok |-> TRUE, fd |-> Some(s0), open |-> {s0}]
        [] fail = "ioctl"       -> [ok |-> FALSE, fd |-> None, open |-> {s0}]
        [] Strategy(os) = "B"   -> [ok |-> TRUE, fd |-> Some(s1), open |-> {s1}]
        [] fail = "setsockopt"  -> [ok |-> FALSE, fd |-> None, open |-> {s1}]
        [] OTHER                -> [ok |-> TRUE, fd |-> Some(s2), open |-> {s2}]

\* unbound_udpsocket(kind): a datagram socket of kind's family, wrapped by
\* from_raw_fd.
UnboundUdpsocket(os, kind, fail) == RawSocketFd(os, Af(kind), "SOCK_DGRAM", fail)

\* --- client.rs
\* The socket Endpoint::client(bind_addr) binds: std's UdpSocket::bind sets
\* close-on-exec everywhere and SO_NOSIGPIPE on Apple targets.
BoundSocket(os, local) ==
  [family |-> Af(local.family), ty |-> "SOCK_DGRAM", cloexec |-> TRUE,
   nosigpipe |-> os \in Apple, local |-> Some(local)]

\* A client that takes any URL.
AnyScheme(u) == TRUE

\* url.scheme() != "quic" is an error.
SchemeOk(u) == u.scheme = "quic"

\* Iterator::next on the resolved addresses.
First(addrs) == IF addrs = <<>> THEN None ELSE Some(addrs[1])

\* A client that always asks for an IPv4 socket.
KindAlwaysV4(a) == "V4"

\* The kind run asks for: V6 if remote.is_ipv6(), V4 otherwise.
KindFor(a) == IF a.family = "V6" THEN "V6" ELSE "V4"

\* The scheme check at the top of run.
ClientCheckScheme ==
  /\ role = "client"
  /\ cpc = "start"
  /\ IF SchemeOk(url)
       THEN cpc' = "resolve" /\ cerr' = cerr
       ELSE cpc' = "failed" /\ cerr' = "scheme"
  /\ UNCHANGED <<role, serverIn, serverVars, handlerVars, pumpVars, clientIn,
                 remote, endpoint, fds, factory, sigPc, hup, closed>>

\* to_socket_addrs()?.next().ok_or(..)?
ClientResolve ==
  /\ cpc = "resolve"
  /\ IF ~url.resolves.ok
       THEN cpc' = "failed" /\ cerr' = "resolve" /\ remote' = remote
       ELSE IF First(url.resolves.addrs) = None
         THEN cpc' = "failed" /\ cerr' = "no address" /\ remote' = remote
         ELSE cpc' = "endpoint" /\ cerr' = cerr /\ remote' = First(url.resolves.addrs)
  /\ UNCHANGED <<role, serverIn, serverVars, handlerVars, pumpVars, clientIn,
                 endpoint, fds, factory, sigPc, hup, closed>>

\* The match on options.bind_addr: make_unbound_client_endpoint of the
\* remote's kind, or make_bound_client_endpoint(local).  An endpoint that
\* fails to build after its socket was made drops the socket, which closes
\* it.
ClientEndpoint ==
  /\ cpc = "endpoint"
  /\ \/ /\ bind_addr = None
        /\ LET kind == KindFor(remote[1])
               r == UnboundUdpsocket(platform, kind, sysFail)
           IN  /\ factory' = Append(factory, kind)
               /\ \/ /\ ~r.ok
                     /\ fds' = fds \cup r.open
                     /\ endpoint' = endpoint /\ cpc' = "failed" /\ cerr' = "socket"
                  \/ /\ r.ok
                     /\ fds' = fds \cup r.open
                     /\ endpoint' = Some([socket |-> r.fd[1]])
                     /\ cpc' = "connecting" /\ cerr' = cerr
                  \/ /\ r.ok
                     /\ fds' = fds
                     /\ endpoint' = endpoint /\ cpc' = "failed" /\ cerr' = "endpoint"
     \/ /\ bind_addr # None
        /\ factory' = factory
        /\ \/ /\ fds' = fds \cup {BoundSocket(platform, bind_addr[1])}
              /\ endpoint' = Some([socket |-> BoundSocket(platform, bind_addr[1])])
              /\ cpc' = "connecting" /\ cerr' = cerr
           \/ /\ fds' = fds
              /\ endpoint' = endpoint /\ cpc' = "failed" /\ cerr' = "endpoint"
  /\ UNCHANGED <<role, serverIn, serverVars, handlerVars, pumpVars, clientIn,
                 remote, sigPc, hup, closed>>

\* endpoint.connect(remote, host).unwrap().await.unwrap(): a failure panics.
ClientConnect ==
  /\ cpc = "connecting"
  /\ \/ cpc' = "opening" /\ cerr' = cerr
     \/ cpc' = "panicked" /\ cerr' = "connect"
  /\ UNCHANGED <<role, serverIn, serverVars, handlerVars, pumpVars, clientIn,
                 remote, endpoint, fds, factory, sigPc, hup, closed>>

\* connection.open_bi().await returns; on Ok the select polls its branches.
ClientOpenBi ==
  /\ cpc = "opening"
  /\ \/ /\ cpc' = "relay"
        /\ pump' = StartDirs(ClientPump)
        /\ sigPc' = "init"
        /\ cerr' = cerr
     \/ /\ cpc' = "failed"
        /\ cerr' = "open_bi"
        /\ UNCHANGED <<pump, sigPc>>
  /\ UNCHANGED <<role, serverIn, serverVars, handlerVars, srcLen, clientIn,
                 remote, endpoint, fds, factory, hup, closed>>

\* A select arm of signal_thread that does nothing, like the other two.
ExitWithoutClose ==
  /\ closed' = closed
  /\ cpc' = "exited"
  /\ sigPc' = "done"
  /\ pump' = [pump EXCEPT ![ClientPump] =
                [d \in Dirs |-> Ended(pump[ClientPump][d],
                                       SelectDrop(pump[ClientPump][d].pc),
                                       pump[ClientPump][d].err)]]

\* The select arm of signal_thread: connection.close(0u32.into(), b"signal HUP").
CloseOnSignal ==
  /\ closed' = Some([code |-> 0, reason |-> "signal HUP"])
  /\ cpc' = "exited"
  /\ sigPc' = "done"
  /\ pump' = [pump EXCEPT ![ClientPump] =
                [d \in Dirs |-> Ended(pump[ClientPump][d],
                                       SelectDrop(pump[ClientPump][d].pc),
                                       pump[ClientPump][d].err)]]

\* signal(SignalKind::hangup()): the listener is registered, or signal_thread
\* returns at once.
ClientSignalInit ==
  /\ cpc = "relay"
  /\ sigPc = "init"
  /\ \/ /\ sigPc' = "waiting"
        /\ UNCHANGED <<cpc, closed, pump>>
     \/ CloseOnSignal
  /\ UNCHANGED <<role, serverIn, serverVars, handlerVars, srcLen, clientIn,
                 setupVars, hup>>

\* The process is sent SIGHUP.
Hangup ==
  /\ cpc = "relay"
  /\ sigPc = "waiting"
  /\ ~hup
  /\ hup' = TRUE
  /\ UNCHANGED <<role, serverIn, serverVars, handlerVars, pumpVars, clientIn,
                 setupVars, cpc, sigPc, closed>>

\* stream.recv().await returns.
ClientSignalRecv ==
  /\ cpc = "relay"
  /\ sigPc = "waiting"
  /\ hup
  /\ CloseOnSignal
  /\ UNCHANGED <<role, serverIn, serverVars, handlerVars, srcLen, clientIn,
                 setupVars, hup>>

\* ------------------------------------------------------------------ specs
Next ==
  \/ ServerStartup
  \/ \E s \in Sessions : Arrive(s)
  \/ ServerAccept
  \/ ServerHandshake
  \/ \E s \in Sessions : HandlerDial(s)
  \/ \E s \in Sessions : HandlerAcceptBi(s)
  \/ \E p \in Pumps, d \in Dirs : DirRead(p, d)
  \/ \E p \in Pumps, d \in Dirs : DirWrite(p, d)
  \/ \E p \in Pumps, d \in Dirs : DirFlush(p, d)
  \/ ClientCheckScheme
  \/ ClientResolve
  \/ ClientEndpoint
  \/ ClientConnect
  \/ ClientOpenBi
  \/ ClientSignalInit
  \/ Hangup
  \/ ClientSignalRecv

Spec == Init /\ [][Next]_vars

SpecRoute == InitRoute /\ [][Next]_vars

SpecData == InitData /\ [][Next]_vars

\* ================================================================ claims
Running == {"read", "write", "flush"}
Over == {"done", "dropped"}

\* The task that owns pump p has come to its end.
OwnerExited(p) == IF p = ClientPump THEN cpc = "exited" ELSE hpc[p] = "exited"

\* ---------------------------------------------------------------------- C1
\* C1 (as claimed): once the source of a relay direction has reported
\* end-of-stream, the direction has terminated: it is not in its loop
\* awaiting another read, write or flush.
C1_EofEndsDirection ==
  \A p \in Pumps, d \in Dirs : pump[p][d].eof => pump[p][d].pc \notin Running

\* ---------------------------------------------------------------------- C2
\* C2: in every relay direction the bytes given to the sink are a prefix of
\* the bytes the source produces; while the block runs, what it has taken
\* from the source is exactly what it has delivered followed by what it still
\* holds, in order; and it reads again only when the chunk it read before
\* has been written out whole.
C2_InOrderExactlyOnce ==
  \A p \in Pumps, d \in Dirs :
    LET me == pump[p][d] IN
    /\ IsPrefix(me.sink, Stream(srcLen[p][d]))
    /\ me.pc \in Running => me.sink \o me.wbuf \o me.out = Stream(me.rd)
    /\ me.pc = "read" => me.out = <<>>
    /\ me.pc = "write" => Len(me.out) \in 1..BufLen

\* C2 witness: both directions of one pump have relayed, one of them its
\* whole stream in more than one chunk.
C2_Witness ==
  \E p \in Pumps :
    /\ pump[p]["recv_thread"].sink = Stream(MaxBytes)
    /\ MaxBytes > BufLen
    /\ pump[p]["write_thread"].sink # <<>>
    /\ pump[p]["write_thread"].pc \in Running

\* ---------------------------------------------------------------------- C3
\* C3: the step in which one direction of a pump terminates is the step in
\* which the pump's owner completes, and once the owner has completed
\* neither direction reads, writes or flushes again: nothing of the pump
\* changes.
C3_SelectAbandons ==
  [][\A p \in Pumps :
       /\ (\E d \in Dirs : pump'[p][d].pc = "done") =>
            IF p = ClientPump THEN cpc' = "exited" ELSE hpc'[p] = "exited"
       /\ OwnerExited(p) => pump'[p] = pump[p]
       /\ \A d \in Dirs : pump[p][d].pc \in Over => pump'[p][d] = pump[p][d]]_vars

\* C3 witness: a pump has completed because one direction returned while the
\* other, which was dropped, had relayed part of its stream only.
C3_Witness ==
  \E p \in Pumps, d \in Dirs :
    /\ OwnerExited(p)
    /\ pump[p][d].pc = "done"
    /\ pump[p][Other(d)].pc = "dropped"
    /\ pump[p][Other(d)].rd \in 1..(srcLen[p][Other(d)] - 1)

\* ---------------------------------------------------------------------- C4
\* C4 (as claimed): when one direction of a session has ended on an I/O
\* error, the opposite direction of that session is still relaying.
C4_OppositeKeepsRelaying ==
  \A p \in Pumps, d \in Dirs :
    (pump[p][d].pc = "done" /\ pump[p][d].err \in {"read", "write"})
      => pump[p][Other(d)].pc \in Running

\* C4 (amended): the step in which an I/O error ends one direction ends the
\* pump of that session, the opposite direction being dropped, and changes
\* nothing of any other session: neither its relay, nor its task, nor the
\* accept loop.
C4_ErrorEndsOwnPumpOnly ==
  [][\A p \in Pumps, d \in Dirs :
       (pump[p][d].pc # "done" /\ pump'[p][d].pc = "done") =>
         /\ pump'[p][d].err \in {"read", "write"}
         /\ pump'[p][Other(d)].pc = "dropped"
         /\ \A q \in Pumps \ {p} : pump'[q] = pump[q]
         /\ \A s \in Sessions \ {p} : hpc'[s] = hpc[s]
         /\ srvPc' = srvPc /\ conn' = conn]_vars

\* C4 witness: one session has ended on an I/O error, its other direction
\* dropped, while another session is relaying and has delivered a byte.
C4_Witness ==
  \E p \in Sessions, q \in Sessions, d \in Dirs :
    /\ p # q
    /\ pump[p][d].pc = "done" /\ pump[p][d].err \in {"read", "write"}
    /\ pump[p][Other(d)].pc = "dropped"
    /\ hpc[q] = "relay"
    /\ pump[q]["recv_thread"].sink # <<>>

\* ---------------------------------------------------------------------- C5
\* A connection whose handling has failed: its handshake, its backend dial,
\* its stream accept or its relay.
Failed(s) ==
  \/ conn[s] = "failed"
  \/ hpc[s] \in {"dial_failed", "stream_failed"}
  \/ hpc[s] = "exited" /\ \E d \in Dirs : pump[s][d].err # ""

\* C5: once the endpoint is built the accept loop is always listening
\* (awaiting the next connection or the handshake of the one it took), in
\* particular after any connection's failure; and when it awaits the next
\* connection and one is waiting, it can take it.
C5_LoopSurvivesFailures ==
  /\ srvPc \notin {"startup", "failed"} => srvPc \in {"accept", "handshake"}
  /\ (\E s \in Sessions : Failed(s)) =>
       /\ srvPc \in {"accept", "handshake"}
       /\ (srvPc = "accept" /\ NextIncoming # 0) =>
            ENABLED (ServerAccept /\ srvPc' = "handshake")

\* C5 witness: the first connection failed its handshake and the second,
\* accepted after it, is relaying and has delivered a byte, while the loop
\* still listens.
C5_Witness ==
  /\ conn[1] = "failed"
  /\ hpc[2] = "relay"
  /\ pump[2]["recv_thread"].sink # <<>>
  /\ srvPc = "accept"

\* ---------------------------------------------------------------------- C6
\* C6: a task whose backend refuses the connection has returned without
\* accepting a stream or relaying a byte, and a task whose backend accepts
\* connections never ends on a dial failure, whatever the other tasks did.
C6_DialFailureIsLocal ==
  \A s \in Sessions :
    /\ (dialed[s] # None /\ dialed[s][1] \in down) =>
         /\ hpc[s] = "dial_failed"
         /\ pump[s] = [d \in Dirs |-> IdleDir]
    /\ (dialed[s] # None /\ dialed[s][1] \notin down) => hpc[s] # "dial_failed"

\* C6 witness: one connection's backend refused it, and another connection
\* with a different routing key, accepted later, has dialled its backend and
\* relayed a byte.
C6_Witness ==
  /\ hpc[1] = "dial_failed"
  /\ sni[2] # sni[1]
  /\ dialed[2] = Some(proxy_to[2]) /\ proxy_to[2] \notin down
  /\ pump[2]["recv_thread"].sink # <<>>

\* ---------------------------------------------------------------------- C7
\* C7 (as claimed): the accept loop never waits on a single connection:
\* whenever a connection is waiting at the endpoint the loop is at
\* endpoint.accept(), ready to take it, whatever the other connections do.
C7_AcceptNeverWaitsOnOne ==
  \A s \in Sessions : conn[s] = "incoming" => srvPc = "accept"

\* ---------------------------------------------------------------------- C8
\* C8: the backend chosen for a connection is an address, the one stored
\* under the key that equals the routing key character for character when
\* the table has such a key, and the effective default otherwise.
C8_LookupTotalExact ==
  \A s \in Sessions :
    conn[s] = "established" =>
      LET hit == {e \in DOMAIN conf : e = sni[s]} IN
      /\ proxy_to[s] \in Backends
      /\ \A e \in hit : proxy_to[s] = conf[e]
      /\ hit = {} => proxy_to[s] = default_proxy

\* C8 witness: a key of the table differs from the routing key in case only,
\* and the connection went to the default.
C8_Witness ==
  \E s \in Sessions :
    /\ conn[s] = "established"
    /\ sni[s] = "foo.example"
    /\ "FOO.example" \in DOMAIN conf
    /\ proxy_to[s] = "127.0.0.1:2222"

\* ---------------------------------------------------------------------- C9
\* C9 (as claimed): the routing key is the declared name, else the remote
\* address (ip and port) as text.
C9_KeyIsNameOrRemoteAddress ==
  \A s \in Sessions :
    conn[s] = "established" =>
      sni[s] = IF server_name[s] # None THEN server_name[s][1]
               ELSE SocketAddrToString(RemoteOf(s))

\* C9 (amended): the routing key is the declared name, else the ip of the
\* remote address as text, without the port; the connection is routed to
\* what the table gives for that key; a peer declaring foo.example with
\* foo.example configured goes to that entry; and the task dials the
\* backend chosen when the connection was accepted.
C9_KeyIsNameOrRemoteIp ==
  \A s \in Sessions :
    conn[s] = "established" =>
      /\ sni[s] = IF server_name[s] # None THEN server_name[s][1]
                  ELSE IpToString(RemoteOf(s).ip)
      /\ proxy_to[s] = IF sni[s] \in DOMAIN conf THEN conf[sni[s]]
                       ELSE default_proxy
      /\ (server_name[s] = Some("foo.example") /\ "foo.example" \in DOMAIN conf)
           => proxy_to[s] = conf["foo.example"]
      /\ dialed[s] \in {None, Some(proxy_to[s])}

\* C9 witness: a peer that declared no name was routed by its ip, not by
\* ip:port, and its task dialled that backend.
C9_Witness ==
  \E s \in Sessions :
    /\ server_name[s] = None
    /\ IpToString(RemoteOf(s).ip) \in DOMAIN conf
    /\ SocketAddrToString(RemoteOf(s)) \in DOMAIN conf
    /\ proxy_to[s] = conf[IpToString(RemoteOf(s).ip)]
    /\ proxy_to[s] # conf[SocketAddrToString(RemoteOf(s))]
    /\ dialed[s] = Some(proxy_to[s])

\* --------------------------------------------------------------------- C10
\* C10: once the server has started, the effective default is the
\* configuration's "default" entry if there is one, else --proxy-to if
\* given, else 127.0.0.1:22; and with neither a configuration nor
\* --proxy-to every connection goes to 127.0.0.1:22.
C10_DefaultPrecedence ==
  srvPc \in {"accept", "handshake"} =>
    /\ default_proxy =
         IF conf_path.given /\ "default" \in DOMAIN conf_path.proxy
           THEN conf_path.proxy["default"]
         ELSE IF opt_proxy_to # None THEN opt_proxy_to[1]
         ELSE "127.0.0.1:22"
    /\ (~conf_path.given /\ opt_proxy_to = None) =>
         \A s \in Sessions : conn[s] = "established" => proxy_to[s] = "127.0.0.1:22"

\* C10 witness: both a "default" entry and --proxy-to were given, and a
\* connection went to the entry.
C10_Witness ==
  \E s \in Sessions :
    /\ conf_path.given /\ "default" \in DOMAIN conf_path.proxy
    /\ opt_proxy_to # None
    /\ opt_proxy_to[1] # conf_path.proxy["default"]
    /\ conn[s] = "established"
    /\ sni[s] \notin DOMAIN conf
    /\ dialed[s] = Some(conf_path.proxy["default"])

\* --------------------------------------------------------------------- C11
\* The close the client answers a hang-up with.
SignalHup == Some([code |-> 0, reason |-> "signal HUP"])

\* C11 (as claimed): a client that received a hang-up in its concurrent phase
\* and has terminated has closed the session with code 0 and reason
\* "signal HUP".
C11_HangupAlwaysCloses ==
  (hup /\ cpc = "exited") => closed = SignalHup

\* C11 (amended): at every point of the concurrent phase a received hang-up
\* can be taken by the listener, whatever the two directions are doing; the
\* step in which the listener takes it closes the session with code 0 and
\* reason "signal HUP"; once the session is closed both directions are over,
\* the client has terminated and nothing is read or written any more.  A
\* direction that completes before the listener is polled ends the client
\* without that close.
C11_HangupClosesUnlessPumpEndsFirst ==
  /\ [](hup /\ cpc = "relay" => ENABLED ClientSignalRecv)
  /\ [](hup => cpc \in {"relay", "exited"})
  /\ [](closed # None =>
         /\ closed = SignalHup
         /\ cpc = "exited"
         /\ \A d \in Dirs : pump[ClientPump][d].pc \in Over)
  /\ [][hup /\ sigPc = "waiting" /\ sigPc' = "done" => closed' = SignalHup]_vars
  /\ [][closed # None => UNCHANGED <<pump, cpc, closed>>]_vars

\* C11 witness: the hang-up came mid-transfer, with bytes relayed both ways
\* and more to come, and the session was closed for it.
C11_Witness ==
  /\ hup /\ closed = SignalHup
  /\ \A d \in Dirs : pump[ClientPump][d].sink # <<>> /\ pump[ClientPump][d].rd < MaxBytes

\* --------------------------------------------------------------------- C12
\* Where the three branches of the client's select are: recv_thread,
\* write_thread, signal_thread.
Activities ==
  <<pump[ClientPump]["recv_thread"].pc, pump[ClientPump]["write_thread"].pc, sigPc>>

\* C12: while the client is in its concurrent phase all three activities are
\* in progress and none has completed; the client has terminated exactly
\* when one of them has completed and the other two are abandoned, and the
\* step that completes one is the step that ends the client; after it no
\* activity moves.
C12_ExitsWithFirstCompletion ==
  /\ [](role = "client" /\ cpc = "relay" =>
         /\ \A i \in 1..2 : Activities[i] \in Running
         /\ Activities[3] \in {"init", "waiting"})
  /\ [](cpc = "exited" <=>
         \E i \in 1..3 : /\ Activities[i] = "done"
                         /\ \A j \in 1..3 : j # i => Activities[j] = "dropped")
  /\ [][(\E i \in 1..3 : Activities[i] # "done" /\ Activities'[i] = "done") =>
         cpc = "relay" /\ cpc' = "exited"]_vars
  /\ [][cpc = "exited" => UNCHANGED <<pump, sigPc, cpc>>]_vars

\* C12 witness: write_thread completed and ended the client; recv_thread,
\* which had delivered bytes, and the listener were abandoned.
C12_Witness ==
  /\ cpc = "exited"
  /\ Activities[2] = "done" /\ Activities[1] = "dropped" /\ Activities[3] = "dropped"
  /\ pump[ClientPump]["recv_thread"].sink # <<>>

\* --------------------------------------------------------------------- C13
\* run has ended on a fatal error: returned Err, or panicked.
Fatal == cpc \in {"failed", "panicked"}

\* The concurrent phase was never entered: no block and no listener was ever
\* polled, and the session was never closed by the select.
NotStarted ==
  /\ \A d \in Dirs : pump[ClientPump][d] = IdleDir
  /\ sigPc = "idle"
  /\ closed = None

\* C13: a client run that hits a fatal error ends there, before the
\* concurrent phase, and stays ended; every fatal input is fatal; and the
\* steps take effect in the order scheme check, resolution, socket choice,
\* connect, open stream: a step's effect is there only if every earlier step
\* succeeded, and a failed step leaves no effect of a later one.
C13_FatalErrorsAbortInOrder ==
  /\ [](Fatal <=> cerr # "")
  /\ [](Fatal => NotStarted)
  /\ [][Fatal => UNCHANGED vars]_vars
  /\ [](url.scheme # "quic" => cpc \in {"start", "failed"} /\ cerr \in {"", "scheme"})
  /\ [](~url.resolves.ok \/ url.resolves.addrs = <<>> =>
         cpc \in {"start", "resolve", "failed"})
  /\ [](remote # None => url.scheme = "quic" /\ remote = Some(url.resolves.addrs[1]))
  /\ [](endpoint # None \/ fds # {} \/ factory # <<>> => remote # None)
  /\ [](cpc \in {"opening", "relay", "exited"} => endpoint # None /\ cerr = "")
  /\ [](cerr \in {"scheme", "resolve", "no address"} =>
         remote = None /\ endpoint = None /\ fds = {} /\ factory = <<>>)
  /\ [](cerr \in {"socket", "endpoint"} => remote # None /\ endpoint = None)
  /\ [](cerr \in {"connect", "open_bi"} => endpoint # None)

\* C13 witness: a URL with a bad scheme whose host would have resolved is
\* rejected with nothing resolved and no socket made.
C13_Witness ==
  /\ cpc = "failed" /\ cerr = "scheme"
  /\ url.resolves.ok /\ url.resolves.addrs # <<>>
  /\ remote = None /\ fds = {}

\* --------------------------------------------------------------------- C14
\* C14: an endpoint built with no bind address has an unbound socket of the
\* resolved target's family, got from one call of the socket factory with
\* the target's kind; an endpoint built with a bind address has a socket
\* bound to exactly that address, and the factory is never called.
C14_EndpointFollowsBindAndFamily ==
  /\ factory # <<>> => bind_addr = None /\ factory = <<remote[1].family>>
  /\ endpoint # None =>
       IF bind_addr = None
         THEN /\ endpoint[1].socket.local = None
              /\ endpoint[1].socket.family =
                   (IF remote[1].family = "V6" THEN "AF_INET6" ELSE "AF_INET")
              /\ factory # <<>>
         ELSE /\ endpoint[1].socket.local = bind_addr
              /\ factory = <<>>

\* C14 witness: no bind address and a host whose first address is IPv6: the
\* endpoint is built on an unbound IPv6 socket.
C14_Witness ==
  /\ bind_addr = None
  /\ remote = Some(Target6)
  /\ endpoint # None
  /\ endpoint[1].socket.family = "AF_INET6"

\* --------------------------------------------------------------------- C15
\* Every build target the cfg attributes of raw_socket_fd name, and one they
\* do not.
AllTargets == WithSockCloexec \cup Apple \cup {"solaris"}

\* What a socket of the factory must be, asked for kind k on target os.
Contract(sock, os, k) ==
  /\ sock.ty = "SOCK_DGRAM"
  /\ sock.family = (IF k = "V6" THEN "AF_INET6" ELSE "AF_INET")
  /\ sock.local = None
  /\ sock.cloexec
  /\ os \in Apple => sock.nosigpipe

\* C15: on every target, for both kinds and whichever call fails, a socket
\* unbound_udpsocket returns meets the contract, and its flags depend on
\* the target alone; the socket of every endpoint the client builds without
\* a bind address meets it; and the target, hence the strategy, never
\* changes during a run.
C15_StrategiesMeetOneContract ==
  /\ [](\A os \in AllTargets, k \in IpAddrKinds, f \in SysCalls \cup {"none"} :
          LET r == UnboundUdpsocket(os, k, f)
          IN  r.ok =>
                /\ Contract(r.fd[1], os, k)
                /\ \A k2 \in IpAddrKinds, f2 \in SysCalls \cup {"none"} :
                     LET r2 == UnboundUdpsocket(os, k2, f2)
                     IN  r2.ok => /\ r2.fd[1].cloexec = r.fd[1].cloexec
                                  /\ r2.fd[1].nosigpipe = r.fd[1].nosigpipe)
  /\ [](bind_addr = None /\ endpoint # None =>
          Contract(endpoint[1].socket, platform, factory[1]))
  /\ [][platform' = platform]_vars

\* C15 witness: on an Apple target the client has built its endpoint on an
\* IPv6 socket of the factory, made by socket, ioctl and setsockopt.
C15_Witness ==
  /\ platform = "macos" /\ bind_addr = None /\ endpoint # None
  /\ factory = <<"V6">>
  /\ endpoint[1].socket.cloexec /\ endpoint[1].socket.nosigpipe

\* --------------------------------------------------------------------- C16
\* C16 (as claimed): a relay direction that has had an I/O error (a failed
\* read, write or flush) is over: it is not in its loop, at a further read,
\* write or flush.
C16_ErrorEndsDirection ==
  \A p \in Pumps, d \in Dirs : pump[p][d].err # "" => pump[p][d].pc \notin Running

\* --------------------------------------------------------------------- C17
\* C17: once run is past its start-up no step changes the routing table or
\* the default backend; the backend a session's task dials is the one the
\* table, as it is now, gives for the session's routing key; so two sessions
\* with the same key dial the same backend, whenever each was accepted.
C17_RoutingFixedAfterStartup ==
  /\ [][srvPc # "startup" => conf' = conf /\ default_proxy' = default_proxy]_vars
  /\ [](\A s \in Sessions :
          dialed[s] # None => dialed[s] = Some(UnwrapOr(Get(conf, sni[s]), default_proxy)))
  /\ [](\A s, t \in Sessions :
          dialed[s] # None /\ dialed[t] # None /\ sni[s] = sni[t] =>
            dialed[s] = dialed[t])

\* C17 witness: two sessions presented the same key; the second was accepted
\* when the first had already come to its end, and both dialed the backend
\* the table names for it.
C17_Witness ==
  /\ sni[1] = "foo.example" /\ sni[2] = "foo.example"
  /\ hpc[1] = "exited"
  /\ dialed[1] = Some("127.0.0.1:2200") /\ dialed[2] = Some("127.0.0.1:2200")

\* --------------------------------------------------------------------- C18
\* C18 (as claimed): a direction abandoned when its pump completed has
\* delivered to its sink every byte it took from its source.
C18_AbandonedHoldsNothing ==
  \A p \in Pumps, d \in Dirs :
    pump[p][d].pc = "dropped" => pump[p][d].sink = Stream(pump[p][d].rd)

\* --------------------------------------------------------------------- C19
\* C19 (as claimed): as long as no hang-up was delivered the session is not
\* closed by the client and the listener has not completed (so it is not
\* what ended the client).
C19_CloseOnlyOnHangup ==
  ~hup => closed = None /\ sigPc # "done"

\* --------------------------------------------------------------------- C20
\* C20 (as claimed): when unbound_udpsocket has returned an error, no socket
\* made during the call is open in the process.
C20_FailedSocketLeavesNothing ==
  cerr = "socket" => fds = {}
====
